---------------------------- MODULE Spec2Model ----------------------------
(***************************************************************************)
(* A model of the MLB statistics scraper: src/fetch_mlb_data.py (the five  *)
(* fetch/reshape/upsert pipelines, the upsert helper and the main runner)  *)
(* and src/fetch_mlb_games.py (the stand-alone games script).              *)
(*                                                                         *)
(* JSON values and Python values are tagged records: every value v has a   *)
(* field v.t in {"null","int","float","str","obj","arr","raise"}; an HTTP  *)
(* response has v.t = "http".  A JSON key that is missing from an object   *)
(* is simply not in the DOMAIN of the object's field map.  A Python        *)
(* exception is the value Raise(kind); every operator below propagates it  *)
(* the way the interpreter unwinds.                                        *)
(***************************************************************************)
EXTENDS Integers, Sequences, FiniteSets, TLC

\* ----------------------------------------------------------------- bounds
\* Largest number of process invocations (main runs and script runs) in one
\* behaviour.
MaxRuns == 2
\* The wall clock takes the values 0..MaxClock; a process start moves it on.
MaxClock == 2
\* Direct calls of the upsert helper in one behaviour of SpecUpsert.
MaxCalls == 2
\* Largest number of elements in the innermost list of a response (the games of
\* a date block, the team records of a division, the splits of a stats entry)
\* and of rows in a batch handed to the helper directly.
MaxItems == 2

\* ---------------------------------------------------------------- state
VARIABLES
  pc,        \* where the running process is: "idle" (no process), or the
             \* pipeline main is about to call
  store,     \* the data store: for each table its rows, in insertion order
  clock,     \* the wall clock
  api,       \* what each API endpoint answers
  runs,      \* process invocations so far
  started,   \* the pipelines the current (or last) main run has called, in order
  exit,      \* how the last process ended: "none", "running", "ok", "crashed"
  reqs,      \* the write requests the last pipeline or script run sent
  last,      \* the last pipeline or script run: where it ended and its batch
  call,      \* the last call of the upsert helper
  prev,      \* per pipeline, the table as its previous run left it
  calls      \* direct calls of the helper so far

vars == <<pc, store, clock, api, runs, started, exit, reqs, last, call, prev, calls>>

\* ----------------------------------------------------------------- values
Null == [t |-> "null"]
IntV(n) == [t |-> "int", v |-> n]
FloatV(m) == [t |-> "float", v |-> m]   \* m is the value in thousandths
StrV(s) == [t |-> "str", v |-> s]
ObjV(f) == [t |-> "obj", f |-> f]
ArrV(s) == [t |-> "arr", v |-> s]
Raise(kind) == [t |-> "raise", kind |-> kind]
\* A key left out of an object when it is built (never a value a program sees).
Absent == [t |-> "absent"]

IsRaise(v) == v.t = "raise"
EmptyObj == ObjV([k \in {} |-> Null])
EmptyArr == ArrV(<<>>)
\* An object built from a record, dropping the keys marked Absent.
MkObj(r) == ObjV([k \in {j \in DOMAIN r : r[j] # Absent} |-> r[k]])

\* dict.get(k, d): AttributeError on a receiver that is not a dict (None, a
\* number, a string, a list); the stored value, null included, when the key is
\* there; d when it is not.
PyGet(o, k, d) ==
  IF IsRaise(o) THEN o
  ELSE IF o.t # "obj" THEN Raise("AttributeError")
  ELSE IF k \in DOMAIN o.f THEN o.f[k] ELSE d

\* o[k]: TypeError on None or a number, KeyError on a missing key.
PyIndex(o, k) ==
  IF IsRaise(o) THEN o
  ELSE IF o.t # "obj" THEN Raise("TypeError")
  ELSE IF k \in DOMAIN o.f THEN o.f[k] ELSE Raise("KeyError")

\* Python truthiness: None, 0, 0.0, "", {} and [] are false.
Truthy(v) ==
  CASE v.t = "null" -> FALSE
    [] v.t = "int" -> v.v # 0
    [] v.t = "float" -> v.v # 0
    [] v.t = "str" -> v.v # ""
    [] v.t = "obj" -> DOMAIN v.f # {}
    [] v.t = "arr" -> v.v # <<>>
    [] OTHER -> TRUE

\* x or d
PyOr(x, d) == IF IsRaise(x) THEN x ELSE IF Truthy(x) THEN x ELSE d

\* The numeric literals the API's strings carry: <<text, int() of it or -1 when
\* int() rejects it, float() of it in thousandths>>.
NumLits ==
  { <<"0", 0, 0>>, <<"1", 1, 1000>>, <<"3", 3, 3000>>, <<"5", 5, 5000>>,
    <<"7", 7, 7000>>, <<"162", 162, 162000>>,
    <<".250", -1, 250>>, <<".500", -1, 500>>, <<"3.50", -1, 3500>>,
    <<"1.5", -1, 1500>> }
LitOf(s) == CHOOSE l \in NumLits : l[1] = s
IsLit(s) == \E l \in NumLits : l[1] = s

\* int(x): TypeError on None, a dict or a list; ValueError on text that is no
\* integer literal; truncation of a float.
PyInt(x) ==
  CASE IsRaise(x) -> x
    [] x.t = "int" -> x
    [] x.t = "float" -> IntV(x.v \div 1000)
    [] x.t = "str" ->
         IF IsLit(x.v) /\ LitOf(x.v)[2] >= 0 THEN IntV(LitOf(x.v)[2])
         ELSE Raise("ValueError")
    [] OTHER -> Raise("TypeError")

\* float(x): TypeError on None, a dict or a list; ValueError on text that is
\* no number.
PyFloat(x) ==
  CASE IsRaise(x) -> x
    [] x.t = "int" -> FloatV(x.v * 1000)
    [] x.t = "float" -> x
    [] x.t = "str" ->
         IF IsLit(x.v) THEN FloatV(LitOf(x.v)[3]) ELSE Raise("ValueError")
    [] OTHER -> Raise("TypeError")

\* str(x) of the values a name field carries.
PyStr(x) ==
  CASE IsRaise(x) -> x
    [] x.t = "str" -> x
    [] x.t = "int" -> IF x.v = 0 THEN StrV("0") ELSE StrV("int")
    [] OTHER -> StrV("repr")


\* ------------------------------------------------------------- sequences
HasRaise(s) == \E i \in 1..Len(s) : IsRaise(s[i])
FirstRaise(s) ==
  s[CHOOSE i \in 1..Len(s) : IsRaise(s[i]) /\ \A j \in 1..(i - 1) : ~IsRaise(s[j])]

RECURSIVE Flatten(_)
\* The concatenation of a sequence of ArrV values.
Flatten(parts) ==
  IF parts = <<>> THEN <<>> ELSE Head(parts).v \o Flatten(Tail(parts))

\* for x in arr: TypeError when arr is None or a number.
PyIter(arr) ==
  IF IsRaise(arr) THEN arr
  ELSE IF arr.t = "arr" THEN arr ELSE Raise("TypeError")

\* The items a for loop visits: none when taking the iterator raised.
Items(it) == IF IsRaise(it) THEN <<>> ELSE it.v

\* A for loop over it (a PyIter value) whose i-th iteration appends the rows
\* parts[i] (an ArrV) to a list local to the function: an exception in any
\* iteration leaves the function, and the rows appended so far are lost with it.
Collect(it, parts) ==
  IF IsRaise(it) THEN it
  ELSE IF HasRaise(parts) THEN FirstRaise(parts) ELSE ArrV(Flatten(parts))

\* A dict literal {k: expr, ...}: the first expression that raises, in the
\* order the literal lists them, ends the evaluation.
Dict(order, r) ==
  LET vals == [i \in 1..Len(order) |-> r[order[i]]] IN
  IF HasRaise(vals) THEN FirstRaise(vals) ELSE ObjV(r)

\* list.append(row) as the loop body's contribution.
Appended(row) == IF IsRaise(row) THEN row ELSE ArrV(<<row>>)

\* ------------------------------------------------------------ the store
Tables == {"games", "standings", "player_season_stats", "schedule", "team_stats"}

\* Two rows are the same logical record when they agree on every conflict
\* column (a column a row does not carry reads as null).
Col(row, c) == IF c \in DOMAIN row.f THEN row.f[c] ELSE Null
SameKey(a, b, cols) == \A i \in 1..Len(cols) : Col(a, cols[i]) = Col(b, cols[i])

\* One record: overwrite the stored row with the same conflict key, else
\* append a new row.
UpsertOne(rows, rec, cols) ==
  IF \E i \in 1..Len(rows) : SameKey(rows[i], rec, cols)
  THEN [i \in 1..Len(rows) |-> IF SameKey(rows[i], rec, cols) THEN rec ELSE rows[i]]
  ELSE Append(rows, rec)

RECURSIVE UpsertAll(_, _, _)
UpsertAll(rows, batch, cols) ==
  IF batch = <<>> THEN rows
  ELSE UpsertAll(UpsertOne(rows, Head(batch), cols), Tail(batch), cols)

\* A plain insert: what the write would be without conflict resolution.
InsertRows(st, table, batch, cols) == [st EXCEPT ![table] = st[table] \o batch]

\* supabase.table(table).upsert(rows, on_conflict=cols).execute(), accepted by
\* the store: one request carrying the whole batch.
StoreUpsert(st, table, batch, cols) ==
  [st EXCEPT ![table] = UpsertAll(st[table], batch, cols)]

\* A write request as the store receives it.
Request(table, batch, cols) == [table |-> table, rows |-> batch, on_conflict |-> cols]

\* What a call leaves behind: the exception it raised (Null when it returned),
\* its return value, the store and the requests it sent.
Outcome(exc, ret, st, requests) ==
  [exc |-> exc, ret |-> ret, store |-> st, reqs |-> requests]

\* The helper without its guard on an empty list.
upsert_unguarded(st, table, rows, conflict_cols, accept) ==
  IF ~(Len(conflict_cols) > 1) /\ conflict_cols = <<>>
  THEN Outcome(Raise("IndexError"), Null, st, <<>>)
  ELSE IF accept
       THEN Outcome(Null, Null, StoreUpsert(st, table, rows, conflict_cols),
                    <<Request(table, rows, conflict_cols)>>)
  ELSE Outcome(Raise("APIError"), Null, st, <<Request(table, rows, conflict_cols)>>)

\* upsert(table, rows, conflict_cols) on store st; accept says whether the
\* store takes the write or the client raises.
upsert(st, table, rows, conflict_cols, accept) ==
  IF rows = <<>> THEN Outcome(Null, Null, st, <<>>)
  ELSE IF ~(Len(conflict_cols) > 1) /\ conflict_cols = <<>>
       THEN Outcome(Raise("IndexError"), Null, st, <<>>)
  ELSE IF accept
       THEN Outcome(Null, Null, StoreUpsert(st, table, rows, conflict_cols),
                    <<Request(table, rows, conflict_cols)>>)
  ELSE Outcome(Raise("APIError"), Null, st, <<Request(table, rows, conflict_cols)>>)

\* ------------------------------------------------------------- the clock
\* datetime.now(): the calendar year, the date and the ISO timestamp at clock
\* value c.  Two clock values make one year.
BaseYear == 2024
YearOf(c) == BaseYear + (c \div 2)
DateOf(c) == [t |-> "date", v |-> c]
IsoOf(c) == [t |-> "timestamp", v |-> c]

\* --------------------------------------------------------------- the API
\* requests.get(url): a response with a status and a body, or a network error.
Http(status, body) == [t |-> "http", status |-> status, body |-> body]
\* A body that is not JSON.
NotJson == [t |-> "text"]
\* r.json()
Json(r) ==
  IF IsRaise(r) THEN r
  ELSE IF r.body = NotJson THEN Raise("JSONDecodeError") ELSE r.body
\* r.raise_for_status(): HTTPError on a 4xx or 5xx status.
RaiseForStatus(r) ==
  IF IsRaise(r) THEN r
  ELSE IF r.status >= 400 /\ r.status < 600 THEN Raise("HTTPError") ELSE Null

\* ------------------------------------------------------------ fetch_games
GameFields == <<"game_id", "date", "status", "home_team", "away_team",
                "home_score", "away_score">>
Side(game, side) == PyGet(PyGet(game, "teams", EmptyObj), side, EmptyObj)
\* The row with the day of the run as its date, as fetch_mlb_games.py builds it,
\* in place of the game's own gameDate.
GameRowToday(game) ==
  Dict(GameFields,
       [game_id |-> PyGet(game, "gamePk", Null),
        date |-> IF IsRaise(PyGet(game, "gameDate", Null))
                 THEN PyGet(game, "gameDate", Null) ELSE DateOf(clock),
        status |-> PyGet(PyGet(game, "status", EmptyObj), "detailedState", Null),
        home_team |-> PyGet(PyGet(Side(game, "home"), "team", EmptyObj), "name", Null),
        away_team |-> PyGet(PyGet(Side(game, "away"), "team", EmptyObj), "name", Null),
        home_score |-> PyGet(Side(game, "home"), "score", Null),
        away_score |-> PyGet(Side(game, "away"), "score", Null)])
GameRow(game) ==
  Dict(GameFields,
       [game_id |-> PyGet(game, "gamePk", Null),
        date |-> PyGet(game, "gameDate", Null),
        status |-> PyGet(PyGet(game, "status", EmptyObj), "detailedState", Null),
        home_team |-> PyGet(PyGet(Side(game, "home"), "team", EmptyObj), "name", Null),
        away_team |-> PyGet(PyGet(Side(game, "away"), "team", EmptyObj), "name", Null),
        home_score |-> PyGet(Side(game, "home"), "score", Null),
        away_score |-> PyGet(Side(game, "away"), "score", Null)])

\* The list games of fetch_games, or the exception the loops raise.
GamesOfDate(date) ==
  LET games == PyIter(PyGet(date, "games", EmptyArr)) IN
  Collect(games, [i \in 1..Len(Items(games)) |-> Appended(GameRow(Items(games)[i]))])
GamesOf(data) ==
  LET dates == PyIter(PyGet(data, "dates", EmptyArr)) IN
  Collect(dates, [i \in 1..Len(Items(dates)) |-> GamesOfDate(Items(dates)[i])])

\* -------------------------------------------------------- fetch_standings
\* s.replace("-", "0") on the texts gamesBack carries; AttributeError when s
\* is None or a number.
ReplaceHyphen(s) ==
  IF IsRaise(s) THEN s
  ELSE IF s.t # "str" THEN Raise("AttributeError")
  ELSE IF s.v = "-" THEN StrV("0") ELSE s

StandingFields == <<"season", "team_id", "team_name", "division", "wins",
                    "losses", "win_pct", "games_back">>
StandingRow(season, division_name, team_record) ==
  LET team == PyGet(team_record, "team", EmptyObj) IN
  IF IsRaise(team) THEN team
  ELSE Dict(StandingFields,
       [season |-> season,
        team_id |-> PyIndex(PyIndex(team_record, "team"), "id"),
        team_name |-> PyIndex(PyIndex(team_record, "team"), "name"),
        division |-> division_name,
        wins |-> PyIndex(team_record, "wins"),
        losses |-> PyIndex(team_record, "losses"),
        win_pct |-> PyFloat(PyIndex(team_record, "winningPercentage")),
        games_back |-> PyFloat(ReplaceHyphen(PyGet(team_record, "gamesBack", StrV("0"))))])

StandingsOfRecord(season, record) ==
  LET division_name == PyGet(PyGet(record, "division", EmptyObj), "name", Null)
      recs == PyIter(PyGet(record, "teamRecords", EmptyArr))
  IN IF IsRaise(division_name) THEN division_name
     ELSE Collect(recs, [i \in 1..Len(Items(recs)) |->
                    Appended(StandingRow(season, division_name, Items(recs)[i]))])
StandingsOf(data, now) ==
  LET season == PyOr(PyGet(data, "season", Null), IntV(YearOf(now)))
      records == PyIter(PyGet(data, "records", EmptyArr))
  IN IF IsRaise(season) THEN season
     ELSE Collect(records, [i \in 1..Len(Items(records)) |->
                    StandingsOfRecord(season, Items(records)[i])])

\* ----------------------------------------------------- fetch_player_stats
\* a if c else b: the condition is evaluated first.
IfElse(c, a, b) == IF IsRaise(c) THEN c ELSE IF Truthy(c) THEN a ELSE b

PlayerFields == <<"player_id", "season", "team_id", "player_name",
                  "games_played", "avg", "ops", "hr", "rbi", "era", "so">>
PlayerRecord(player, stat, team_info, now) ==
  Dict(PlayerFields,
       [player_id |-> IfElse(PyGet(player, "id", Null), PyInt(PyGet(player, "id", Null)), Null),
        season |-> PyInt(IntV(YearOf(now))),
        team_id |-> IfElse(PyGet(team_info, "id", Null), PyInt(PyGet(team_info, "id", Null)), Null),
        player_name |-> IfElse(PyGet(player, "fullName", Null),
                               PyStr(PyGet(player, "fullName", Null)), Null),
        games_played |-> IfElse(PyGet(stat, "gamesPlayed", Null),
                                PyInt(PyGet(stat, "gamesPlayed", IntV(0))), IntV(0)),
        avg |-> PyFloat(PyOr(PyGet(stat, "avg", IntV(0)), IntV(0))),
        ops |-> PyFloat(PyOr(PyGet(stat, "ops", IntV(0)), IntV(0))),
        hr |-> PyInt(PyOr(PyGet(stat, "homeRuns", IntV(0)), IntV(0))),
        rbi |-> PyInt(PyOr(PyGet(stat, "rbi", IntV(0)), IntV(0))),
        era |-> PyFloat(PyOr(PyGet(stat, "era", IntV(0)), IntV(0))),
        so |-> PyInt(PyOr(PyGet(stat, "strikeOuts", IntV(0)), IntV(0)))])

\* One split: the three lookups, then the try block.  ValueError and TypeError
\* are caught and the split skipped; a record without player_id or team_id is
\* skipped; any other exception leaves the function.
PlayerSplit(split, now) ==
  LET player == PyGet(split, "player", EmptyObj)
      stat == PyGet(split, "stat", EmptyObj)
      team_info == PyGet(split, "team", EmptyObj)
  IN
  IF IsRaise(player) THEN player
  ELSE LET record == PlayerRecord(player, stat, team_info, now) IN
       IF IsRaise(record)
       THEN IF record.kind \in {"ValueError", "TypeError"} THEN EmptyArr ELSE record
       ELSE IF record.f.player_id # Null /\ record.f.team_id # Null
            THEN ArrV(<<record>>) ELSE EmptyArr

PlayerStatsOfRow(row, now) ==
  LET splits == PyIter(PyGet(row, "splits", EmptyArr)) IN
  Collect(splits, [i \in 1..Len(Items(splits)) |-> PlayerSplit(Items(splits)[i], now)])
PlayerStatsOf(data, now) ==
  LET rows == PyIter(PyGet(data, "stats", EmptyArr)) IN
  Collect(rows, [i \in 1..Len(Items(rows)) |-> PlayerStatsOfRow(Items(rows)[i], now)])

\* --------------------------------------------------------- fetch_schedule
ScheduleFields == <<"game_id", "date", "home_team", "away_team">>
ScheduleRow(game) ==
  Dict(ScheduleFields,
       [game_id |-> PyGet(game, "gamePk", Null),
        date |-> PyGet(game, "gameDate", Null),
        home_team |-> PyGet(PyGet(Side(game, "home"), "team", EmptyObj), "name", Null),
        away_team |-> PyGet(PyGet(Side(game, "away"), "team", EmptyObj), "name", Null)])

ScheduleOfDate(date) ==
  LET games == PyIter(PyGet(date, "games", EmptyArr)) IN
  Collect(games, [i \in 1..Len(Items(games)) |-> Appended(ScheduleRow(Items(games)[i]))])
ScheduleOf(data) ==
  LET dates == PyIter(PyGet(data, "dates", EmptyArr)) IN
  Collect(dates, [i \in 1..Len(Items(dates)) |-> ScheduleOfDate(Items(dates)[i])])

\* ------------------------------------------------------- fetch_team_stats
\* s.lower() on the group names the API sends; AttributeError when s is None.
Lower(s) ==
  IF IsRaise(s) THEN s
  ELSE IF s.t # "str" THEN Raise("AttributeError")
  ELSE IF s.v = "Hitting" THEN StrV("hitting")
  ELSE IF s.v = "Pitching" THEN StrV("pitching")
  ELSE s

\* stat_splits[0]
First(arr) ==
  IF IsRaise(arr) THEN arr
  ELSE IF arr.t # "arr" THEN Raise("TypeError")
  ELSE IF arr.v = <<>> THEN Raise("IndexError") ELSE arr.v[1]

TeamFields == <<"season", "team_id", "team_name", "games_played", "wins",
                "losses", "win_percentage", "runs_scored", "runs_allowed",
                "home_runs", "batting_avg", "obp", "slg", "era", "strikeouts",
                "walks", "stolen_bases", "caught_stealing", "updated_at">>

\* The row as first built: the identity of the first split, every statistic
\* None, the time of construction.
TeamRowInit(season, team_info, now) ==
  Dict(TeamFields,
       [season |-> season,
        team_id |-> PyGet(team_info, "id", Null),
        team_name |-> PyGet(team_info, "name", Null),
        games_played |-> Null, wins |-> Null, losses |-> Null,
        win_percentage |-> Null, runs_scored |-> Null, runs_allowed |-> Null,
        home_runs |-> Null, batting_avg |-> Null, obp |-> Null, slg |-> Null,
        era |-> Null, strikeouts |-> Null, walks |-> Null,
        stolen_bases |-> Null, caught_stealing |-> Null,
        updated_at |-> IsoOf(now)])

HittingFields == <<"games_played", "runs_scored", "home_runs", "batting_avg",
                   "obp", "slg", "stolen_bases", "caught_stealing">>
HittingValues(stats) ==
  [games_played |-> PyInt(PyGet(stats, "gamesPlayed", IntV(0))),
   runs_scored |-> PyInt(PyGet(stats, "runs", IntV(0))),
   home_runs |-> PyInt(PyGet(stats, "homeRuns", IntV(0))),
   batting_avg |-> PyFloat(PyOr(PyGet(stats, "avg", IntV(0)), IntV(0))),
   obp |-> PyFloat(PyOr(PyGet(stats, "obp", IntV(0)), IntV(0))),
   slg |-> PyFloat(PyOr(PyGet(stats, "slg", IntV(0)), IntV(0))),
   stolen_bases |-> PyInt(PyGet(stats, "stolenBases", IntV(0))),
   caught_stealing |-> PyInt(PyGet(stats, "caughtStealing", IntV(0)))]

PitchingFields == <<"wins", "losses", "win_percentage", "era", "strikeouts",
                    "walks", "runs_allowed">>
PitchingValues(stats) ==
  [wins |-> PyInt(PyGet(stats, "wins", IntV(0))),
   losses |-> PyInt(PyGet(stats, "losses", IntV(0))),
   win_percentage |-> PyFloat(PyOr(PyGet(stats, "winPercentage", IntV(0)), IntV(0))),
   era |-> PyFloat(PyOr(PyGet(stats, "era", IntV(0)), IntV(0))),
   strikeouts |-> PyInt(PyGet(stats, "strikeOuts", IntV(0))),
   walks |-> PyInt(PyGet(stats, "baseOnBalls", IntV(0))),
   runs_allowed |-> PyInt(PyGet(stats, "runs", IntV(0)))]

\* The assignments row[k] = ... of one branch, in order: the first that raises
\* ends them.
Assign(row, order, vals) ==
  LET seqv == [i \in 1..Len(order) |-> vals[order[i]]] IN
  IF HasRaise(seqv) THEN FirstRaise(seqv)
  ELSE ObjV([k \in DOMAIN row.f |-> IF k \in DOMAIN vals THEN vals[k] ELSE row.f[k]])

\* One iteration of the loop over the splits.
MergeSplit(row, split) ==
  LET group == Lower(PyGet(PyGet(split, "group", EmptyObj), "displayName", StrV("")))
      stats == PyGet(split, "stat", EmptyObj)
  IN
  IF IsRaise(group) THEN group
  ELSE IF IsRaise(stats) THEN stats
  ELSE IF group = StrV("hitting") THEN Assign(row, HittingFields, HittingValues(stats))
  ELSE IF group = StrV("pitching") THEN Assign(row, PitchingFields, PitchingValues(stats))
  ELSE row

RECURSIVE MergeSplits(_, _)
MergeSplits(row, splits) ==
  IF IsRaise(row) \/ splits = <<>> THEN row
  ELSE MergeSplits(MergeSplit(row, Head(splits)), Tail(splits))

\* One element of data["stats"], which the code calls a team.
TeamEntry(team, season, now) ==
  LET stat_splits == PyGet(team, "splits", EmptyArr) IN
  IF IsRaise(stat_splits) THEN stat_splits
  ELSE LET team_info == IF Truthy(stat_splits)
                        THEN PyGet(First(stat_splits), "team", EmptyObj)
                        ELSE EmptyObj
           row == TeamRowInit(season, team_info, now)
       IN
       IF IsRaise(team_info) THEN team_info
       ELSE IF IsRaise(row) THEN row
       ELSE LET it == PyIter(stat_splits)
                merged == IF IsRaise(it) THEN it ELSE MergeSplits(row, it.v)
            IN
            IF IsRaise(merged) THEN merged
            ELSE IF merged.f.team_id # Null THEN ArrV(<<merged>>) ELSE EmptyArr

TeamStatsOf(data, season, now) ==
  LET teams == PyIter(PyGet(data, "stats", EmptyArr)) IN
  Collect(teams, [i \in 1..Len(Items(teams)) |-> TeamEntry(Items(teams)[i], season, now)])

\* ------------------------------------------------------ fetch_mlb_games.py
\* resp.json().get("dates", [{}])[0].get("games", [])
ScriptGames(body) ==
  PyGet(First(PyGet(body, "dates", ArrV(<<EmptyObj>>))), "games", EmptyArr)

ScriptFields == <<"game_id", "date", "home_team", "away_team", "status">>
ScriptRow(game, today) ==
  Dict(ScriptFields,
       [game_id |-> PyIndex(game, "gamePk"),
        date |-> today,
        home_team |-> PyIndex(PyIndex(PyIndex(PyIndex(game, "teams"), "home"), "team"), "name"),
        away_team |-> PyIndex(PyIndex(PyIndex(PyIndex(game, "teams"), "away"), "team"), "name"),
        status |-> PyIndex(PyIndex(game, "status"), "detailedState")])

\* The script's loop: one upsert request per game, each sent before the next
\* row is built.  accepted is the number of requests the store takes before it
\* rejects one (Len(games) or more: it takes them all).
RECURSIVE ScriptLoop(_, _, _, _, _)
ScriptLoop(st, games, today, accepted, sent) ==
  IF games = <<>> THEN Outcome(Null, Null, st, sent)
  ELSE LET data == ScriptRow(Head(games), today) IN
       IF IsRaise(data) THEN Outcome(data, Null, st, sent)
       ELSE LET req == Request("games", <<data>>, <<"game_id">>) IN
            IF accepted = 0 THEN Outcome(Raise("APIError"), Null, st, Append(sent, req))
            ELSE ScriptLoop(StoreUpsert(st, "games", <<data>>, <<"game_id">>),
                            Tail(games), today, accepted - 1, Append(sent, req))

\* ------------------------------------------------- what the API may answer
SeqsUpTo(S, n) == UNION {[1..k -> S] : k \in 0..n}
Pairs(S) == {<<a, b>> : a \in S, b \in S}

Team(n) == MkObj([name |-> StrV(n)])
TeamsOf(h, a, hs, as) ==
  MkObj([home |-> MkObj([team |-> Team(h), score |-> hs]),
         away |-> MkObj([team |-> Team(a), score |-> as])])
Status(s) == MkObj([detailedState |-> StrV(s)])
GameObj(pk, status, teams) ==
  MkObj([gamePk |-> pk, gameDate |-> StrV("2024-05-01T18:05:00Z"),
         status |-> status, teams |-> teams])

Game101 == GameObj(IntV(101), Status("Scheduled"), TeamsOf("A", "B", Absent, Absent))
Game102 == GameObj(IntV(102), Status("Final"), TeamsOf("C", "D", IntV(5), IntV(3)))
GameObjs ==
  { Game101, Game102,
    GameObj(Absent, Status("Scheduled"), TeamsOf("A", "B", Absent, Absent)),
    GameObj(IntV(101), Absent, Absent),
    GameObj(IntV(101), Null, TeamsOf("A", "B", Absent, Absent)),
    GameObj(IntV(102), Status("Final"), Null) }

DateBlock(games) == MkObj([games |-> games])
ScheduleBodies ==
  {MkObj([dates |-> d]) :
     d \in {Absent, Null}
           \cup {ArrV(<<DateBlock(g)>>) :
                   g \in {Absent, Null} \cup {ArrV(q) : q \in SeqsUpTo(GameObjs, MaxItems)}}
           \cup {ArrV(<<DateBlock(ArrV(<<p[1]>>)), DateBlock(ArrV(<<p[2]>>))>>) :
                   p \in Pairs(GameObjs)}
           \cup {EmptyArr}}

TeamRec(team, wins, losses, pct, gb) ==
  MkObj([team |-> team, wins |-> wins, losses |-> losses,
         winningPercentage |-> pct, gamesBack |-> gb])
TeamA == MkObj([id |-> IntV(1), name |-> StrV("A")])
TeamB == MkObj([id |-> IntV(2), name |-> StrV("B")])
TeamRecs ==
  { TeamRec(TeamA, IntV(5), IntV(3), StrV(".500"), StrV("-")),
    TeamRec(TeamB, IntV(3), IntV(5), StrV(".250"), StrV("1.5")),
    TeamRec(TeamB, IntV(3), IntV(5), StrV(".250"), Absent),
    TeamRec(Absent, IntV(5), IntV(3), StrV(".500"), StrV("-")),
    TeamRec(MkObj([id |-> Null, name |-> StrV("A")]), IntV(5), IntV(3), StrV(".500"), StrV("-")),
    TeamRec(TeamA, Absent, IntV(3), StrV(".500"), StrV("-")),
    TeamRec(TeamA, IntV(5), IntV(3), Null, StrV("-")),
    TeamRec(TeamA, IntV(5), IntV(3), StrV(".500"), Null) }
Division(d, recs) == MkObj([division |-> d, teamRecords |-> recs])
StandingsBodies ==
  {MkObj([season |-> y, records |-> r]) :
     y \in {Absent, StrV("2023")},
     r \in {Absent, Null, EmptyArr}
           \cup {ArrV(<<Division(MkObj([name |-> StrV("AL East")]), t)>>) :
                   t \in {Absent, Null} \cup {ArrV(q) : q \in SeqsUpTo(TeamRecs, MaxItems)}}
           \cup {ArrV(<<Division(d, ArrV(<<TeamRec(TeamA, IntV(5), IntV(3), StrV(".500"), StrV("-"))>>))>>) :
                   d \in {Absent, Null}}}

BatStat ==
  MkObj([gamesPlayed |-> IntV(5), avg |-> StrV(".250"), ops |-> StrV(".500"),
         homeRuns |-> IntV(1), rbi |-> IntV(3), strikeOuts |-> IntV(7)])
PlayerSplitObj(player, team, stat) == MkObj([player |-> player, team |-> team, stat |-> stat])
Player10 == MkObj([id |-> IntV(10), fullName |-> StrV("P")])
Player11 == MkObj([id |-> IntV(11), fullName |-> StrV("Q")])
PlayerSplits ==
  { PlayerSplitObj(Player10, MkObj([id |-> IntV(1)]), BatStat),
    PlayerSplitObj(Player11, MkObj([id |-> IntV(1)]), Absent),
    PlayerSplitObj(MkObj([fullName |-> StrV("P")]), MkObj([id |-> IntV(1)]), BatStat),
    PlayerSplitObj(Player10, Absent, BatStat),
    PlayerSplitObj(Null, MkObj([id |-> IntV(1)]), BatStat),
    PlayerSplitObj(Player10, MkObj([id |-> IntV(1)]), Null),
    PlayerSplitObj(Player10, MkObj([id |-> IntV(1)]), MkObj([avg |-> StrV("-.--")])) }
PlayerBodies ==
  {MkObj([stats |-> x]) :
     x \in {Absent, Null, EmptyArr}
           \cup {ArrV(<<MkObj([splits |-> q])>>) :
                   q \in {Absent, Null} \cup {ArrV(w) : w \in SeqsUpTo(PlayerSplits, MaxItems)}}}

HitStat ==
  MkObj([gamesPlayed |-> IntV(162), runs |-> IntV(7), homeRuns |-> IntV(5),
         avg |-> StrV(".250"), obp |-> StrV(".500"), slg |-> StrV(".500"),
         stolenBases |-> IntV(3), caughtStealing |-> IntV(1)])
PitchStat ==
  MkObj([wins |-> IntV(5), losses |-> IntV(3), winPercentage |-> StrV(".500"),
         era |-> StrV("3.50"), strikeOuts |-> IntV(7), baseOnBalls |-> IntV(3),
         runs |-> IntV(1)])
Group(n) == MkObj([displayName |-> n])
TeamSplitObj(team, group, stat) == MkObj([team |-> team, group |-> group, stat |-> stat])
TeamSplits ==
  { TeamSplitObj(TeamA, Group(StrV("hitting")), HitStat),
    TeamSplitObj(TeamA, Group(StrV("Pitching")), PitchStat),
    TeamSplitObj(TeamA, Group(StrV("fielding")), EmptyObj),
    TeamSplitObj(TeamB, Group(StrV("pitching")), PitchStat),
    TeamSplitObj(Absent, Group(StrV("hitting")), HitStat),
    TeamSplitObj(TeamA, Group(StrV("hitting")), EmptyObj),
    TeamSplitObj(TeamA, Group(StrV("hitting")), MkObj([gamesPlayed |-> Null])),
    TeamSplitObj(TeamA, Group(Null), HitStat),
    TeamSplitObj(TeamA, Absent, HitStat) }
StatsEntry(splits) == MkObj([splits |-> splits])
TeamStatsBodies ==
  {MkObj([stats |-> x]) :
     x \in {Absent, Null, EmptyArr}
           \cup {ArrV(<<StatsEntry(q)>>) :
                   q \in {Absent, Null} \cup {ArrV(w) : w \in SeqsUpTo(TeamSplits, MaxItems)}}
           \cup {ArrV(<<StatsEntry(ArrV(<<p[1]>>)), StatsEntry(ArrV(<<p[2]>>))>>) :
                   p \in Pairs(TeamSplits)}}

Endpoints == {"schedule", "standings", "stats", "schedule_range", "teams_stats"}
Bodies(e) ==
  CASE e = "schedule" -> ScheduleBodies
    [] e = "standings" -> StandingsBodies
    [] e = "stats" -> PlayerBodies
    [] e = "schedule_range" -> ScheduleBodies
    [] e = "teams_stats" -> TeamStatsBodies
\* The answer of an endpoint on an ordinary day.
PlainBody(e) ==
  CASE e = "schedule" -> MkObj([dates |-> ArrV(<<DateBlock(ArrV(<<Game101>>))>>)])
    [] e = "standings" ->
         MkObj([records |-> ArrV(<<Division(MkObj([name |-> StrV("AL East")]),
                  ArrV(<<TeamRec(TeamA, IntV(5), IntV(3), StrV(".500"), StrV("-"))>>))>>)])
    [] e = "stats" ->
         MkObj([stats |-> ArrV(<<MkObj([splits |->
                  ArrV(<<PlayerSplitObj(Player10, MkObj([id |-> IntV(1)]), BatStat)>>)])>>)])
    [] e = "schedule_range" -> MkObj([dates |-> ArrV(<<DateBlock(ArrV(<<Game102>>))>>)])
    [] e = "teams_stats" ->
         MkObj([stats |-> ArrV(<<StatsEntry(ArrV(<<
                  TeamSplitObj(TeamA, Group(StrV("hitting")), HitStat),
                  TeamSplitObj(TeamA, Group(StrV("pitching")), PitchStat)>>))>>)])
ErrorBody == MkObj([message |-> StrV("Object not found")])
Responses(e) ==
  {Http(200, b) : b \in Bodies(e)}
    \cup {Http(500, PlainBody(e)), Http(404, ErrorBody), Http(500, NotJson),
          Http(200, NotJson), Raise("ConnectionError")}
Plain(e) == Http(200, PlainBody(e))
\* The answers of the five endpoints: any answer at one of them, the ordinary
\* one at the others.
ApiStates ==
  UNION {{[e \in Endpoints |-> IF e = f THEN r ELSE Plain(e)] : r \in Responses(f)} :
           f \in Endpoints}
\* Every endpoint answers with an empty document.
EmptyApi == [e \in Endpoints |-> Http(200, EmptyObj)]

Pipelines == <<"fetch_games", "fetch_standings", "fetch_player_stats",
               "fetch_schedule", "fetch_team_stats">>
PipelineSet == {Pipelines[i] : i \in 1..Len(Pipelines)}
TableOf(p) ==
  CASE p = "fetch_games" -> "games"
    [] p = "fetch_standings" -> "standings"
    [] p = "fetch_player_stats" -> "player_season_stats"
    [] p = "fetch_schedule" -> "schedule"
    [] p = "fetch_team_stats" -> "team_stats"
    [] p = "fetch_mlb_games.py" -> "games"
KeysOf(p) ==
  CASE p = "fetch_games" -> <<"game_id">>
    [] p = "fetch_standings" -> <<"season", "team_id">>
    [] p = "fetch_player_stats" -> <<"player_id", "season">>
    [] p = "fetch_schedule" -> <<"game_id">>
    [] p = "fetch_team_stats" -> <<"season", "team_id">>
    [] p = "fetch_mlb_games.py" -> <<"game_id">>
EndpointOf(p) ==
  CASE p = "fetch_games" -> "schedule"
    [] p = "fetch_standings" -> "standings"
    [] p = "fetch_player_stats" -> "stats"
    [] p = "fetch_schedule" -> "schedule_range"
    [] p = "fetch_team_stats" -> "teams_stats"
    [] p = "fetch_mlb_games.py" -> "schedule"

NoCall == [n |-> 0, table |-> "", rows |-> <<>>, cols |-> <<>>, exc |-> Null,
           ret |-> Null, sent |-> 0, before |-> <<>>, after |-> <<>>,
           again |-> FALSE]
NoRun == [pipeline |-> "", phase |-> "", exc |-> Null, batch |-> Null,
          status |-> 0, year |-> 0, before |-> <<>>, after |-> <<>>,
          prior |-> [ran |-> FALSE]]
EmptyStore == [t \in Tables |-> <<>>]

InitWith(apis, stores) ==
  /\ pc = "idle"
  /\ store \in stores
  /\ clock = 0
  /\ api \in apis
  /\ runs = 0
  /\ started = <<>>
  /\ exit = "none"
  /\ reqs = <<>>
  /\ last = NoRun
  /\ call = NoCall
  /\ prev = [p \in PipelineSet |-> [ran |-> FALSE]]
  /\ calls = 0

Init == InitWith(ApiStates, {EmptyStore})

\* The record of one call of the helper: its arguments, how it ended, the
\* number of requests it sent, the table before and after it, and whether it
\* repeats the call before it (same arguments, that call returned, and nothing
\* has written to the table since).
CallOf(table, rows, cols, out) ==
  [n |-> call.n + 1, table |-> table, rows |-> rows, cols |-> cols,
   exc |-> out.exc, ret |-> out.ret, sent |-> Len(out.reqs),
   before |-> store[table], after |-> out.store[table],
   again |-> /\ call.n > 0 /\ call.exc = Null
             /\ call.table = table /\ call.rows = rows /\ call.cols = cols
             /\ call.after = store[table]]

\* The body of a pipeline after the request: r is the HTTP response, checked
\* is what the status check raised (Null when there is none or it passed),
\* batch the reshaped rows.  A pipeline that returns early on an empty batch
\* (guarded) does not call the helper.
Run(p, r, checked, data, batch, guarded, accept) ==
  LET phase == IF IsRaise(r) THEN "request"
               ELSE IF IsRaise(checked) THEN "status"
               ELSE IF IsRaise(data) THEN "parse"
               ELSE IF IsRaise(batch) THEN "reshape"
               ELSE "upsert"
      exc == IF IsRaise(r) THEN r
             ELSE IF IsRaise(checked) THEN checked
             ELSE IF IsRaise(data) THEN data
             ELSE IF IsRaise(batch) THEN batch ELSE Null
      called == phase = "upsert" /\ ~(guarded /\ batch.v = <<>>)
      out == IF called THEN upsert(store, TableOf(p), batch.v, KeysOf(p), accept)
             ELSE Outcome(exc, Null, store, <<>>)
  IN [phase |-> phase, called |-> called, out |-> out,
      batch |-> IF phase = "upsert" THEN batch ELSE Null]

\* The state after pipeline p has run as run says; main then calls next, or
\* the process ends: with a traceback when the pipeline raised.
Finish(p, next, run) ==
  /\ store' = run.out.store
  /\ reqs' = run.out.reqs
  /\ last' = [pipeline |-> p, phase |-> run.phase, exc |-> run.out.exc,
              batch |-> run.batch,
              status |-> IF IsRaise(api[EndpointOf(p)]) THEN 0
                         ELSE api[EndpointOf(p)].status,
              year |-> YearOf(clock), before |-> store[TableOf(p)],
              after |-> run.out.store[TableOf(p)], prior |-> prev[p]]
  /\ call' = IF run.called
             THEN CallOf(TableOf(p), run.batch.v, KeysOf(p), run.out)
             ELSE call
  /\ prev' = [prev EXCEPT ![p] =
                [ran |-> TRUE, year |-> YearOf(clock),
                 rejected |-> run.called /\ run.out.exc # Null,
                 rows |-> run.out.store[TableOf(p)]]]
  /\ started' = Append(started, p)
  /\ pc' = IF run.out.exc # Null THEN "idle" ELSE next
  /\ exit' = IF run.out.exc # Null THEN "crashed"
             ELSE IF next = "idle" THEN "ok" ELSE exit
  /\ UNCHANGED <<clock, api, runs, calls>>

\* A process starts at a later time than the one before it.
Later == IF runs = 0 THEN {clock} ELSE (clock + 1)..MaxClock

\* python fetch_mlb_data.py
StartMain ==
  /\ pc = "idle"
  /\ runs < MaxRuns
  /\ \E c \in Later : clock' = c
  /\ runs' = runs + 1
  /\ pc' = "fetch_games"
  /\ started' = <<>>
  /\ exit' = "running"
  /\ UNCHANGED <<store, api, reqs, last, call, prev, calls>>

fetch_games ==
  /\ pc = "fetch_games"
  /\ \E accept \in BOOLEAN :
       LET r == api["schedule"]
           data == Json(r)
           games == GamesOf(data)
       IN Finish("fetch_games", "fetch_standings",
                 Run("fetch_games", r, Null, data, games, FALSE, accept))

fetch_standings ==
  /\ pc = "fetch_standings"
  /\ \E accept \in BOOLEAN :
       LET r == api["standings"]
           data == Json(r)
           standings == StandingsOf(data, clock)
       IN Finish("fetch_standings", "fetch_player_stats",
                 Run("fetch_standings", r, Null, data, standings, FALSE, accept))

fetch_player_stats ==
  /\ pc = "fetch_player_stats"
  /\ \E accept \in BOOLEAN :
       LET r == api["stats"]
           data == Json(r)
           player_stats == PlayerStatsOf(data, clock)
       IN Finish("fetch_player_stats", "fetch_schedule",
                 Run("fetch_player_stats", r, Null, data, player_stats, FALSE, accept))

fetch_schedule ==
  /\ pc = "fetch_schedule"
  /\ \E accept \in BOOLEAN :
       LET r == api["schedule_range"]
           data == Json(r)
           schedule == ScheduleOf(data)
       IN Finish("fetch_schedule", "fetch_team_stats",
                 Run("fetch_schedule", r, Null, data, schedule, FALSE, accept))

fetch_team_stats ==
  /\ pc = "fetch_team_stats"
  /\ \E accept \in BOOLEAN :
       LET season == IntV(YearOf(clock))
           resp == api["teams_stats"]
           checked == RaiseForStatus(resp)
           data == Json(resp)
           team_stats == TeamStatsOf(data, season, clock)
       IN Finish("fetch_team_stats", "idle",
                 Run("fetch_team_stats", resp, checked, data, team_stats, TRUE, accept))

\* python fetch_mlb_games.py: the whole script.
fetch_mlb_games ==
  /\ pc = "idle"
  /\ runs < MaxRuns
  /\ \E c \in Later, accepted \in 0..MaxItems :
       LET today == DateOf(c)
           resp == api["schedule"]
           games == PyIter(ScriptGames(Json(resp)))
           out == IF IsRaise(games) THEN Outcome(games, Null, store, <<>>)
                  ELSE ScriptLoop(store, games.v, today, accepted, <<>>)
       IN /\ clock' = c
          /\ store' = out.store
          /\ reqs' = out.reqs
          /\ last' = [pipeline |-> "fetch_mlb_games.py",
                      phase |-> IF IsRaise(resp) THEN "request"
                                ELSE IF IsRaise(Json(resp)) THEN "parse"
                                ELSE IF out.exc = Null \/ out.exc = Raise("APIError")
                                     THEN "upsert" ELSE "reshape",
                      exc |-> out.exc,
                      batch |-> IF IsRaise(games) THEN Null ELSE games,
                      status |-> IF IsRaise(resp) THEN 0 ELSE resp.status,
                      year |-> YearOf(c), before |-> store["games"],
                      after |-> out.store["games"], prior |-> [ran |-> FALSE]]
          /\ prev' = [prev EXCEPT !["fetch_games"] = [ran |-> FALSE]]
          /\ exit' = IF out.exc # Null THEN "crashed" ELSE "ok"
  /\ runs' = runs + 1
  /\ started' = <<>>
  /\ UNCHANGED <<pc, api, call, calls>>

Next ==
  \/ StartMain
  \/ fetch_games
  \/ fetch_standings
  \/ fetch_player_stats
  \/ fetch_schedule
  \/ fetch_team_stats
  \/ fetch_mlb_games

Spec == Init /\ [][Next]_vars

\* ------------------------------------------------ the helper called directly
\* Rows for direct calls: two with the same (season, team_id) and different
\* values, one of the same team in another season, one of another team.
TestRow(season, team_id, wins) ==
  ObjV([season |-> season, team_id |-> team_id, wins |-> wins])
TestRows ==
  { TestRow(IntV(2024), IntV(1), IntV(0)), TestRow(IntV(2024), IntV(1), IntV(5)),
    TestRow(IntV(2025), IntV(1), IntV(0)), TestRow(IntV(2024), IntV(2), IntV(3)) }
TestCols == {<<>>, <<"team_id">>, <<"season", "team_id">>}
TestStores ==
  {[EmptyStore EXCEPT !["standings"] = q] : q \in SeqsUpTo(TestRows, 1)}

\* upsert(table, rows, conflict_cols) called from outside the pipelines (a
\* test, an interactive session) between two process runs.
CallUpsert ==
  /\ pc = "idle"
  /\ calls < MaxCalls
  /\ \E rows \in SeqsUpTo(TestRows, MaxItems), cols \in TestCols, accept \in BOOLEAN :
       LET out == upsert(store, "standings", rows, cols, accept) IN
       /\ store' = out.store
       /\ call' = CallOf("standings", rows, cols, out)
  /\ calls' = calls + 1
  /\ UNCHANGED <<pc, clock, api, runs, started, exit, reqs, last, prev>>

InitUpsert == InitWith({EmptyApi}, TestStores)
NextUpsert == CallUpsert \/ Next
SpecUpsert == InitUpsert /\ [][NextUpsert]_vars

\* ------------------------------------------- what the specification expects
\* Null-safe lookups, used only to state what a response should yield.
SafeGet(o, k) == IF o.t = "obj" /\ k \in DOMAIN o.f THEN o.f[k] ELSE Null
RECURSIVE SafePath(_, _)
SafePath(o, path) ==
  IF path = <<>> THEN o ELSE SafePath(SafeGet(o, Head(path)), Tail(path))
SafeList(v) == IF v.t = "arr" THEN v.v ELSE <<>>
RECURSIVE ConcatAll(_)
ConcatAll(ss) == IF ss = <<>> THEN <<>> ELSE Head(ss) \o ConcatAll(Tail(ss))

\* Every game object of a schedule document, over all date blocks, in order.
AllGames(body) ==
  LET ds == SafeList(SafeGet(body, "dates")) IN
  ConcatAll([i \in 1..Len(ds) |-> SafeList(SafeGet(ds[i], "games"))])
\* Every split of a team-stats document, over all entries, in order.
AllSplits(body) ==
  LET es == SafeList(SafeGet(body, "stats")) IN
  ConcatAll([i \in 1..Len(es) |-> SafeList(SafeGet(es[i], "splits"))])
GroupOf(split) ==
  LET n == SafePath(split, <<"group", "displayName">>) IN
  IF n.t = "str" THEN Lower(n).v ELSE ""
SplitsOf(body, team_id, group) ==
  SelectSeq(AllSplits(body),
            LAMBDA sp : SafePath(sp, <<"team", "id">>) = team_id /\ GroupOf(sp) = group)
\* A stat object without its null values.
Scrub(stat) ==
  IF stat.t # "obj" THEN EmptyObj
  ELSE ObjV([k \in {j \in DOMAIN stat.f : stat.f[j] # Null} |-> stat.f[k]])

\* The rows of the one request a run sent (none when it sent none).
SentRows == IF reqs = <<>> THEN <<>> ELSE reqs[1].rows
BodyOf(p) == api[EndpointOf(p)].body
\* The last run got a JSON document from the API.
GotDocument == last.pipeline # "" /\ last.phase \notin {"request", "status", "parse"}
StripRow(r) == ObjV([k \in DOMAIN r.f \ {"updated_at"} |-> r.f[k]])
Strip(rows) == [i \in 1..Len(rows) |-> StripRow(rows[i])]

\* ----------------------------------------------------------------- claims

\* C1: every record in a batch handed to the store write has a non-null value
\* in each of its conflict-key columns; an object without its natural key never
\* reaches the written batch.
C1_KeysNonNull ==
  \A i \in 1..Len(reqs) :
    \A j \in 1..Len(reqs[i].rows) :
      \A k \in 1..Len(reqs[i].on_conflict) :
        Col(reqs[i].rows[j], reqs[i].on_conflict[k]) # Null

\* C2: whichever pipelines fail, a run of main has started all five
\* pipelines, once each and in order, by the time the process ends.
C2_AllPipelinesStarted ==
  (exit \in {"ok", "crashed"} /\ last.pipeline \in PipelineSet) => started = Pipelines

\* C3: a call of upsert that repeats the call before it (same table, batch and
\* conflict keys, the first one taken by the store) leaves the table exactly as
\* the first call left it.
C3_UpsertTwice == call.again => call.after = call.before

\* C3 witness: a repeated call with a two-row batch and the composite key,
\* taken by the store, on a table the first call changed.
C3_Witness ==
  /\ call.again
  /\ call.exc = Null
  /\ call.sent = 1
  /\ Len(call.rows) = 2
  /\ call.cols = <<"season", "team_id">>
  /\ Len(call.after) >= 2

\* C4 as stated: after a pipeline has run again on the same API answer (the
\* earlier write not rejected), its table is column for column what the
\* earlier run left.
C4_RerunNoChange ==
  (last.pipeline \in PipelineSet /\ last.prior.ran /\ ~last.prior.rejected)
    => last.after = last.prior.rows

\* C4 amended: after a pipeline has run again in the same calendar year on the
\* same API answer (the earlier write not rejected), its table is what the
\* earlier run left in every column but updated_at.
C4_RerunSameYear ==
  (/\ last.pipeline \in PipelineSet
   /\ last.prior.ran
   /\ ~last.prior.rejected
   /\ last.prior.year = last.year)
    => Strip(last.after) = Strip(last.prior.rows)

\* C4 witness: fetch_team_stats has run twice in one year, both writes taken,
\* and only updated_at differs.
C4_Witness ==
  /\ last.pipeline = "fetch_team_stats"
  /\ last.prior.ran
  /\ ~last.prior.rejected
  /\ last.prior.year = last.year
  /\ last.exc = Null
  /\ Len(reqs) = 1
  /\ last.after # last.prior.rows
  /\ last.prior.rows # <<>>

\* C5: no run ends with an exception raised while the response is reshaped.
C5_ReshapeNeverRaises == ~(last.pipeline # "" /\ last.phase = "reshape")

\* C6: after a non-2xx answer a pipeline neither reshapes the body nor sends
\* a write.
C6_HardStop ==
  (last.pipeline \in PipelineSet /\ last.status # 0
   /\ ~(last.status >= 200 /\ last.status < 300))
    => (last.phase \in {"request", "status"} /\ reqs = <<>>)

\* C7 as stated: upsert with an empty list sends nothing, does not raise and
\* returns the write count 0.
C7_EmptyReturnsZero ==
  (call.n > 0 /\ call.rows = <<>>)
    => (call.exc = Null /\ call.sent = 0 /\ call.ret = IntV(0))

\* C7 amended: upsert with an empty list, whatever the table and the key list,
\* sends nothing, does not raise, returns None and leaves the table as it was;
\* and a pipeline whose reshaped batch is empty sends nothing, does not raise
\* and leaves its table as it was.
C7_EmptyNoWrite ==
  /\ (call.n > 0 /\ call.rows = <<>>)
       => (call.exc = Null /\ call.sent = 0 /\ call.ret = Null
           /\ call.after = call.before)
  /\ (last.pipeline \in PipelineSet /\ last.phase = "upsert" /\ last.batch.v = <<>>)
       => (last.exc = Null /\ reqs = <<>> /\ last.after = last.before)

\* C7 witness: the helper was called directly with an empty list and an empty
\* key list on a table that holds a row, after fetch_team_stats ended on an
\* empty batch.
C7_Witness ==
  /\ call.n > 0
  /\ calls > 0
  /\ call.rows = <<>>
  /\ call.cols = <<>>
  /\ call.before # <<>>
  /\ last.pipeline = "fetch_team_stats"
  /\ last.phase = "upsert"
  /\ last.batch.v = <<>>

\* The games expected of a run: one record per game object over all date
\* blocks, in order, in one batch for the games table keyed by game_id, with
\* the game's gamePk, its detailedState and its scores (null where the game has
\* none).
GamesAsExpected(gs) ==
  IF gs = <<>> THEN reqs = <<>>
  ELSE /\ Len(reqs) = 1
       /\ reqs[1].table = "games"
       /\ reqs[1].on_conflict = <<"game_id">>
       /\ Len(reqs[1].rows) = Len(gs)
       /\ \A i \in 1..Len(gs) :
            /\ Col(reqs[1].rows[i], "game_id") = SafeGet(gs[i], "gamePk")
            /\ Col(reqs[1].rows[i], "status")
                 = SafePath(gs[i], <<"status", "detailedState">>)
            /\ Col(reqs[1].rows[i], "home_score")
                 = SafePath(gs[i], <<"teams", "home", "score">>)
            /\ Col(reqs[1].rows[i], "away_score")
                 = SafePath(gs[i], <<"teams", "away", "score">>)
HaveGamePk(gs) == \A i \in 1..Len(gs) : SafeGet(gs[i], "gamePk") # Null

\* C8: for any schedule document whose game objects all carry a gamePk, the
\* games pipeline sends the games table, in one batch keyed by game_id, one
\* record per game object over all date blocks, in order, with the game's
\* gamePk, its detailedState, and its scores (null where the game has none).
C8_GamesWritten ==
  (last.pipeline \in {"fetch_games", "fetch_mlb_games.py"} /\ GotDocument)
    => LET gs == AllGames(BodyOf(last.pipeline)) IN
       HaveGamePk(gs) => GamesAsExpected(gs)

\* C9: when a team's hitting and pitching statistics arrive as separate
\* groups, fetch_team_stats sends exactly one record for that (season, team),
\* its hitting fields taken from the hitting group and its pitching fields from
\* the pitching group; the fields of a group that is absent stay None.
C9_TeamMerged ==
  (last.pipeline = "fetch_team_stats" /\ GotDocument)
    => \A team_id \in {IntV(1), IntV(2)} :
         LET hs == SplitsOf(BodyOf("fetch_team_stats"), team_id, "hitting")
             ps == SplitsOf(BodyOf("fetch_team_stats"), team_id, "pitching")
             mine == SelectSeq(SentRows,
                       LAMBDA r : r.f.team_id = team_id /\ r.f.season = IntV(last.year))
         IN (Len(hs) <= 1 /\ Len(ps) <= 1 /\ Len(hs) + Len(ps) >= 1)
              => /\ Len(mine) = 1
                 /\ \A i \in 1..Len(HittingFields) :
                      mine[1].f[HittingFields[i]]
                        = IF hs = <<>> THEN Null
                          ELSE HittingValues(Scrub(SafeGet(hs[1], "stat")))[HittingFields[i]]
                 /\ \A i \in 1..Len(PitchingFields) :
                      mine[1].f[PitchingFields[i]]
                        = IF ps = <<>> THEN Null
                          ELSE PitchingValues(Scrub(SafeGet(ps[1], "stat")))[PitchingFields[i]]

\* C10: a run that hands N >= 1 records to the store sends exactly one write
\* request, and it carries all N.
C10_OneRequest ==
  (last.pipeline # "" /\ last.phase = "upsert" /\ Len(last.batch.v) >= 1)
    => (Len(reqs) = 1 /\ Len(reqs[1].rows) = Len(last.batch.v))

\* ------------------------------------------------------ what the code does keep
\* fetch_games, when its reshaping does not raise and the store takes the
\* write, sends the games as expected.
FetchGamesWritten ==
  (last.pipeline = "fetch_games" /\ last.phase = "upsert")
    => GamesAsExpected(AllGames(BodyOf("fetch_games")))

\* Each of the five pipelines of fetch_mlb_data.py sends its batch in one
\* request.
PipelinesSendOneBatch ==
  (last.pipeline \in PipelineSet /\ last.phase = "upsert" /\ Len(last.batch.v) >= 1)
    => (Len(reqs) = 1 /\ reqs[1].rows = last.batch.v)

\* fetch_team_stats stops at a non-2xx answer.
TeamStatsChecksStatus ==
  (last.pipeline = "fetch_team_stats" /\ last.status # 0
   /\ ~(last.status >= 200 /\ last.status < 300))
    => (last.phase = "status" /\ reqs = <<>>)

\* fetch_player_stats and fetch_team_stats never send a record without its key.
ValidatedKeysNonNull ==
  \A i \in 1..Len(reqs) :
    reqs[i].table \in {"player_season_stats", "team_stats"}
      => \A j \in 1..Len(reqs[i].rows) :
           \A k \in 1..Len(reqs[i].on_conflict) :
             Col(reqs[i].rows[j], reqs[i].on_conflict[k]) # Null

=============================================================================
